---- MODULE Spec2Model ----
(***************************************************************************)
(* A model of model/model.py (MiniMind): the forward pass of MiniMindLM    *)
(* with its KV-cache, the streaming generator _stream, the batch method    *)
(* generate, the sampling pipeline (repetition penalty, temperature,       *)
(* nucleus filter), the two dispatch paths of MOEFeedForward, and model    *)
(* construction.                                                           *)
(*                                                                         *)
(* Activations are symbolic.  The hidden state of a position after a block *)
(* is the record of what the block read to produce it: the block's input   *)
(* at that position, the absolute position the rotary embedding gave the   *)
(* query, and the keys/values (each with its own absolute position) the    *)
(* query attended to, in order.  Two hidden states are equal exactly when  *)
(* the block read the same things, whatever the weights are.               *)
(***************************************************************************)
EXTENDS Integers, Sequences, FiniteSets, TLC

VARIABLES cfg, OUT, args, input_ids, stream, gen, smp, moe, caller

vars == <<cfg, OUT, args, input_ids, stream, gen, smp, moe, caller>>

(***************************************************************************)
(* Bounds of the model.                                                    *)
(***************************************************************************)
MaxPrompt == 2
MaxBatch == 2
MaxNewTokens == 5
MaxSeqLen == 3
MaxLayers == 2
MaxGenTokens == 4

(***************************************************************************)
(* Program constants: the defaults of generate's signature.                *)
(***************************************************************************)
eos_token_id == 2
pad_token_id == 0

Vocab == {pad_token_id, 1, eos_token_id}

Min(a, b) == IF a < b THEN a ELSE b
Max(a, b) == IF a > b THEN a ELSE b
Last(s) == s[Len(s)]

RECURSIVE SeqsUpTo(_, _)
SeqsUpTo(S, n) ==
  IF n = 0 THEN {<<>>}
  ELSE LET shorter == SeqsUpTo(S, n - 1)
       IN shorter \cup {Append(s, x) : s \in {t \in shorter : Len(t) = n - 1}, x \in S}

SeqsOfLen(S, n) == {s \in SeqsUpTo(S, n) : Len(s) = n}

(***************************************************************************)
(* Model configuration (LMConfig) and the per-layer cache slot.            *)
(* None for n_kv_heads is written NoneHeads.                               *)
(***************************************************************************)
NoneHeads == 0

NoneKV == [some |-> FALSE, kv |-> <<>>]
SomeKV(kv) == [some |-> TRUE, kv |-> kv]

NoOUT == [logits |-> <<>>, past_key_values |-> <<>>]

\* A configuration every check of construction and forward accepts.
ValidConfig(max_seq_len, n_layers, flash) ==
  [dim |-> 8, n_heads |-> 2, n_kv_heads |-> 1, scoring_func |-> "softmax",
   use_moe |-> FALSE, flash |-> flash, max_seq_len |-> max_seq_len,
   n_layers |-> n_layers, built |-> "ok"]

head_dim(c) == c.dim \div c.n_heads

\* a position table with no end
PosCisSliceUnbounded(c, start_pos, seq_len) ==
  [i \in 1..seq_len |-> start_pos + i - 1]

(***************************************************************************)
(* MiniMindLM.forward, line 357: self.pos_cis[start_pos:start_pos+seq_len] *)
(* is a Python slice of a table of max_seq_len rows: it is cut at the      *)
(* table's end.  The result is the sequence of absolute positions.         *)
(***************************************************************************)
PosCisSlice(c, start_pos, seq_len) ==
  LET lo == Min(start_pos, c.max_seq_len)
      hi == Min(start_pos + seq_len, c.max_seq_len)
  IN [i \in 1..(hi - lo) |-> lo + i - 1]

(***************************************************************************)
(* The keys a query row may read.  With the fused kernel (flash, and       *)
(* seq_len # 1) is_causal masks from the top-left corner; otherwise        *)
(* self.mask[:, :, :seq_len, :seq_len] is added to the scores, which       *)
(* broadcasts only when the score matrix is square or has one row (and a   *)
(* single row's mask entry is 0: it reads every key).                      *)
(***************************************************************************)
MaskShapeOk(c, seq_len, total) ==
  \/ c.flash /\ seq_len # 1
  \/ seq_len = 1
  \/ total = seq_len

Visible(c, i, seq_len, total) ==
  IF seq_len # 1 THEN 1..Min(i, total) ELSE 1..total

(***************************************************************************)
(* Attention.forward.  x is the block's (normalised) input, one entry per  *)
(* position; pos_cis the position slice.  A key/value entry is the input   *)
(* it was projected from with the position its key was rotated by.         *)
(***************************************************************************)
Attention(c, x, pos_cis, past_key_value, use_cache) ==
  LET seq_len == Len(x)
  IN IF head_dim(c) % 2 # 0
     THEN [err |-> "reshape", output |-> <<>>, past_kv |-> NoneKV]
     ELSE IF Len(pos_cis) # seq_len
     THEN [err |-> "assert_pos_cis", output |-> <<>>, past_kv |-> NoneKV]
     ELSE
       LET new == [i \in 1..seq_len |-> [pos |-> pos_cis[i], x |-> x[i]]]
           xk == IF past_key_value.some THEN past_key_value.kv \o new ELSE new
           past_kv == IF use_cache THEN SomeKV(xk) ELSE NoneKV
       IN IF ~MaskShapeOk(c, seq_len, Len(xk))
          THEN [err |-> "mask_shape", output |-> <<>>, past_kv |-> NoneKV]
          ELSE [err |-> "none",
                output |-> [i \in 1..seq_len |->
                             [x |-> x[i], q |-> pos_cis[i],
                              att |-> [j \in Visible(c, i, seq_len, Len(xk)) |-> xk[j]]]],
                past_kv |-> past_kv]

(***************************************************************************)
(* MiniMindBlock.forward: attention, then the feed-forward network, which  *)
(* acts on each position alone.  With use_moe the gate runs first and      *)
(* raises NotImplementedError for a scoring function other than softmax.   *)
(***************************************************************************)
Block(c, x, pos_cis, past_key_value, use_cache) ==
  LET a == Attention(c, x, pos_cis, past_key_value, use_cache)
  IN IF a.err # "none" THEN a
     ELSE IF c.use_moe /\ c.scoring_func # "softmax"
     THEN [err |-> "scoring_func", output |-> <<>>, past_kv |-> NoneKV]
     ELSE a

RECURSIVE Layers(_, _, _, _, _, _, _)
Layers(c, l, h, pos_cis, past_key_values, use_cache, past_kvs) ==
  IF l > c.n_layers
  THEN [err |-> "none", logits |-> h, past_key_values |-> past_kvs]
  ELSE LET b == Block(c, h, pos_cis, past_key_values[l], use_cache)
       IN IF b.err # "none"
          THEN [err |-> b.err, logits |-> <<>>, past_key_values |-> <<>>]
          ELSE Layers(c, l + 1, b.output, pos_cis, past_key_values, use_cache,
                      Append(past_kvs, b.past_kv))

(***************************************************************************)
(* MiniMindLM.forward(input_ids, past_key_values, use_cache, start_pos).   *)
(* past_key_values None (or empty) stands for a list of None.  logits has  *)
(* one entry per input position.                                           *)
(***************************************************************************)
Forward(c, ids, past_key_values, use_cache, start_pos) ==
  LET pkv == IF past_key_values = <<>>
             THEN [l \in 1..c.n_layers |-> NoneKV]
             ELSE past_key_values
      h == [i \in 1..Len(ids) |-> [tok |-> ids[i]]]
  IN Layers(c, 1, h, PosCisSlice(c, start_pos, Len(ids)), pkv, use_cache, <<>>)

(***************************************************************************)
(* Numbers.  A logit is a rational <<n, d>> with d > 0, or NegInf.  The    *)
(* unit of a logit is ln 2, so that softmax weighs a logit l by 2^l and    *)
(* every probability is a ratio of integers; the logit sets below keep     *)
(* every logit that reaches softmax a whole number.                        *)
(***************************************************************************)
NegInf == <<-1, 0>>
IsInf(r) == r[2] = 0
Rat(n) == <<n, 1>>
RLess(a, b) == a[1] * b[2] < b[1] * a[2]
REq(a, b) == a[1] * b[2] = b[1] * a[2]
\* a / b for b > 0
RDiv(a, b) == <<a[1] * b[2], a[2] * b[1]>>
Whole(r) == r[1] \div r[2]

RECURSIVE Pow2(_)
Pow2(k) == IF k <= 0 THEN 1 ELSE 2 * Pow2(k - 1)

RECURSIVE SumTo(_, _)
SumTo(f, k) == IF k = 0 THEN 0 ELSE f[k] + SumTo(f, k - 1)

Range(s) == {s[i] : i \in DOMAIN s}

(***************************************************************************)
(* _stream, line 407: logits[:, list(set(input_ids.tolist()[0]))] /= rp    *)
(***************************************************************************)
RepetitionPenalty(logits, ids, rp) ==
  [v \in DOMAIN logits |-> IF v \in Range(ids) THEN RDiv(logits[v], rp) ELSE logits[v]]

(***************************************************************************)
(* line 408: logits /= (temperature + 1e-9).  The argument t is the whole  *)
(* divisor, temperature + 1e-9.                                            *)
(***************************************************************************)
TemperatureScale(logits, t) == [v \in DOMAIN logits |-> RDiv(logits[v], t)]

(***************************************************************************)
(* torch.sort(logits, descending=True): any order that is descending; the  *)
(* order of equal logits is not fixed.  A sort is the sequence             *)
(* sorted_indices.                                                         *)
(***************************************************************************)
DescendingSorts(logits) ==
  LET n == Cardinality(DOMAIN logits)
  IN {p \in [1..n -> DOMAIN logits] :
        /\ \A i, j \in 1..n : i # j => p[i] # p[j]
        /\ \A i \in 1..(n - 1) : ~RLess(logits[p[i]], logits[p[i + 1]])}

\* F.softmax up to its normalising sum: integer weights, and their sum.
SoftmaxWeights(sorted_logits) ==
  LET n == Len(sorted_logits)
      fin == {Whole(sorted_logits[i]) : i \in {j \in 1..n : ~IsInf(sorted_logits[j])}}
      lo == CHOOSE m \in fin : \A k \in fin : m <= k
  IN [i \in 1..n |-> IF IsInf(sorted_logits[i]) THEN 0
                     ELSE Pow2(Whole(sorted_logits[i]) - lo)]

(***************************************************************************)
(* lines 409-417.  top_p is a rational, or NoneTopP.                       *)
(***************************************************************************)
NoneTopP == <<0, 0>>

\* the removal mask without the shift of lines 414-415
SortedIndicesToRemoveUnshifted(logits, top_p, sorted_indices) ==
  LET n == Len(sorted_indices)
      sorted_logits == [i \in 1..n |-> logits[sorted_indices[i]]]
      w == SoftmaxWeights(sorted_logits)
      total == SumTo(w, n)
  IN [i \in 1..n |-> IF i = 1 THEN FALSE ELSE SumTo(w, i) * top_p[2] > top_p[1] * total]

SortedIndicesToRemove(logits, top_p, sorted_indices) ==
  LET n == Len(sorted_indices)
      sorted_logits == [i \in 1..n |-> logits[sorted_indices[i]]]
      w == SoftmaxWeights(sorted_logits)
      total == SumTo(w, n)
      \* cumulative_probs > top_p
      over == [i \in 1..n |-> SumTo(w, i) * top_p[2] > top_p[1] * total]
  IN [i \in 1..n |-> IF i = 1 THEN FALSE ELSE over[i - 1]]

NucleusFilter(logits, top_p, sorted_indices) ==
  IF top_p # NoneTopP /\ RLess(top_p, Rat(1))
  THEN LET rm == SortedIndicesToRemove(logits, top_p, sorted_indices)
       IN [v \in DOMAIN logits |->
            LET i == CHOOSE k \in 1..Len(sorted_indices) : sorted_indices[k] = v
            IN IF rm[i] THEN NegInf ELSE logits[v]]
  ELSE logits

\* torch.multinomial(F.softmax(logits)): any token of non-zero probability.
Support(logits) == {v \in DOMAIN logits : ~IsInf(logits[v])}

(***************************************************************************)
(* The logits the output projection can give, over the vocabulary: the     *)
(* weights are not modelled, so a forward pass may give any of them.       *)
(***************************************************************************)
LogitVals == {Rat(-3), Rat(0), Rat(3)}
LogitVecs == [Vocab -> LogitVals]

\* lines 407-418 for the logits lg of one forward pass: the tokens the draw can give
SampledFrom(lg, ids, a) ==
  LET scaled == TemperatureScale(RepetitionPenalty(lg, ids, a.rp), a.temperature)
  IN UNION {Support(NucleusFilter(scaled, a.top_p, p)) : p \in DescendingSorts(scaled)}

Sampled(ids, a) == UNION {SampledFrom(lg, ids, a) : lg \in LogitVecs}

(***************************************************************************)
(* _stream: a generator.  Its state is its local variables and where it    *)
(* is suspended: "start" (created, body not begun), "yield" (suspended at  *)
(* line 420), "done" (returned), "error" (an exception of forward left     *)
(* it).  call records the arguments of the last forward call and logits    *)
(* what line 406 read from its result.                                     *)
(***************************************************************************)
NoCall == [seq_len |-> 0, start_pos |-> 0, past |-> <<>>]

NoStream ==
  [pc |-> "none", ids |-> <<>>, start |-> 0, first_seq |-> TRUE, past_kvs |-> <<>>,
   logits |-> <<>>, call |-> NoCall, n_forward |-> 0, yielded |-> <<>>]

NewStream(ids) == [NoStream EXCEPT !.pc = "start", !.ids = ids, !.start = Len(ids)]

\* the guard with <= for <
LoopGuardInclusive(st, a) == Len(st.ids) <= a.max_new_tokens - 1

\* line 400: while input_ids.shape[1] < max_new_tokens - 1
LoopGuard(st, a) == Len(st.ids) < a.max_new_tokens - 1

\* the cached step without its start_pos
StepCallAtZero(st, a) ==
  IF st.first_seq \/ ~a.use_cache
  THEN [ids |-> st.ids, start_pos |-> 0]
  ELSE [ids |-> <<Last(st.ids)>>, start_pos |-> 0]

\* the cached step with the length for its start_pos
StepCallAtLength(st, a) ==
  IF st.first_seq \/ ~a.use_cache
  THEN [ids |-> st.ids, start_pos |-> 0]
  ELSE [ids |-> <<Last(st.ids)>>, start_pos |-> Len(st.ids)]

\* lines 401-405: the arguments of the step's forward call
StepCall(st, a) ==
  IF st.first_seq \/ ~a.use_cache
  THEN [ids |-> st.ids, start_pos |-> 0]
  ELSE [ids |-> <<Last(st.ids)>>, start_pos |-> Len(st.ids) - 1]

\* the cache read back from the model's shared OUT object at the step
PastKvsOfOUT(o, st) == IF st.first_seq THEN st.past_kvs ELSE o.past_key_values

\* lines 402, 404: past_key_values=past_kvs, the generator's local of line 406
PastKvs(o, st) == st.past_kvs

(***************************************************************************)
(* One resumption of the generator (next(out)), from where it is suspended *)
(* to its next yield, its return or its exception: the set of results, one *)
(* per outcome of the draw, each with the model's OUT object after it.     *)
(***************************************************************************)
StreamNext(c, a, o, st) ==
  IF st.pc = "yield" /\ Last(st.ids) = a.eos_token_id
  THEN {[st |-> [st EXCEPT !.pc = "done"], OUT |-> o]}
  ELSE IF ~LoopGuard(st, a)
  THEN {[st |-> [st EXCEPT !.pc = "done"], OUT |-> o]}
  ELSE LET k == StepCall(st, a)
           called == [seq_len |-> Len(k.ids), start_pos |-> k.start_pos,
                      past |-> [l \in DOMAIN PastKvs(o, st) |->
                                 Len(PastKvs(o, st)[l].kv)]]
           out == Forward(c, k.ids, PastKvs(o, st), a.use_cache, k.start_pos)
       IN IF out.err # "none"
          THEN {[st |-> [st EXCEPT !.pc = "error", !.call = called,
                                   !.n_forward = @ + 1],
                 OUT |-> o]}
          ELSE {[st |-> [st EXCEPT !.pc = "yield", !.first_seq = FALSE,
                                   !.ids = Append(@, tok),
                                   !.past_kvs = out.past_key_values,
                                   !.logits = <<Last(out.logits)>>,
                                   !.call = called,
                                   !.n_forward = @ + 1,
                                   !.yielded = SubSeq(Append(st.ids, tok), st.start + 1,
                                                      Len(st.ids) + 1)],
                 OUT |-> [logits |-> out.logits,
                          past_key_values |-> out.past_key_values]]
                : tok \in Sampled(st.ids, a)}

(***************************************************************************)
(* generate.  With stream it returns the generator over input_ids; without *)
(* it runs, row by row, a generator over the row's non-pad tokens to its   *)
(* end, then pads the rows to one length.                                  *)
(***************************************************************************)
NoGen ==
  [pc |-> "none", i |-> 0, non_pad |-> <<>>, tokens_list |-> <<>>,
   generated |-> <<>>, result |-> <<>>, lists |-> <<>>]

\* line 383: input_ids[i][input_ids[i] != pad_token_id]
RECURSIVE NonPad(_, _)
NonPad(row, pad) ==
  IF row = <<>> THEN <<>>
  ELSE IF row[1] = pad THEN NonPad(Tail(row), pad)
  ELSE <<row[1]>> \o NonPad(Tail(row), pad)

\* line 386: gen = torch.cat(tokens_list, dim=-1) if tokens_list else non_pad
GenOf(tokens_list, non_pad) == IF tokens_list # <<>> THEN tokens_list ELSE non_pad

\* line 387
FullSequence(non_pad, tokens_list) == non_pad \o GenOf(tokens_list, non_pad)

\* lines 389-396
RECURSIVE MaxLength(_)
MaxLength(generated) ==
  IF generated = <<>> THEN 0
  ELSE Max(Len(generated[1]), MaxLength(Tail(generated)))

Padded(generated, pad) ==
  LET max_length == MaxLength(generated)
  IN [r \in DOMAIN generated |->
       generated[r] \o [k \in 1..(max_length - Len(generated[r])) |-> pad]]

GenerateBegin ==
  /\ gen.pc = "call"
  /\ IF args.stream
     THEN /\ stream' = NewStream(input_ids[1])
          /\ gen' = [gen EXCEPT !.pc = "streaming"]
     ELSE LET non_pad == NonPad(input_ids[1], args.pad_token_id)
          IN /\ stream' = NewStream(non_pad)
             /\ gen' = [gen EXCEPT !.pc = "rows", !.i = 1, !.non_pad = non_pad]
  /\ UNCHANGED <<cfg, OUT, args, input_ids, smp, moe, caller>>

\* next(out): by the caller of a streaming generate, or by line 385
Pull ==
  /\ gen.pc \in {"streaming", "rows"}
  /\ stream.pc \in {"start", "yield"}
  /\ \E r \in StreamNext(cfg, args, OUT, stream) :
       /\ stream' = r.st
       /\ OUT' = r.OUT
       /\ gen' = IF gen.pc = "streaming" THEN gen
                 ELSE IF r.st.pc = "yield"
                 THEN [gen EXCEPT !.tokens_list = Append(@, Last(r.st.yielded))]
                 ELSE IF r.st.pc = "error" THEN [gen EXCEPT !.pc = "raised"]
                 ELSE gen
  /\ UNCHANGED <<cfg, args, input_ids, smp, moe, caller>>

\* lines 386-388 for row i, then the next row's generator or lines 389-396
RowDone ==
  /\ gen.pc = "rows"
  /\ stream.pc = "done"
  /\ LET generated == Append(gen.generated, FullSequence(gen.non_pad, gen.tokens_list))
         lists == Append(gen.lists, gen.tokens_list)
     IN IF gen.i < Len(input_ids)
        THEN LET non_pad == NonPad(input_ids[gen.i + 1], args.pad_token_id)
             IN /\ stream' = NewStream(non_pad)
                /\ gen' = [gen EXCEPT !.i = @ + 1, !.non_pad = non_pad,
                                      !.tokens_list = <<>>, !.generated = generated,
                                      !.lists = lists]
        ELSE /\ stream' = stream
             /\ gen' = [gen EXCEPT !.pc = "returned", !.generated = generated,
                                   !.lists = lists,
                                   !.result = Padded(generated, args.pad_token_id)]
  /\ UNCHANGED <<cfg, OUT, args, input_ids, smp, moe, caller>>

(***************************************************************************)
(* The sampling parameters of a generate call: rp, temperature + 1e-9 and  *)
(* top_p.  The first is the signature's default.                           *)
(***************************************************************************)
DefaultSampling == [rp |-> Rat(1), temperature |-> <<3, 4>>, top_p |-> <<9, 10>>]
PenaltySampling == [rp |-> Rat(2), temperature |-> <<3, 2>>, top_p |-> <<1, 2>>]

NoSmp == [pc |-> "none"]
NoMoe == [pc |-> "none"]
NoCaller == [pc |-> "none"]

CallArgs(m, u, s, sp) ==
  [max_new_tokens |-> m, use_cache |-> u, stream |-> s,
   rp |-> sp.rp, temperature |-> sp.temperature, top_p |-> sp.top_p,
   eos_token_id |-> eos_token_id, pad_token_id |-> pad_token_id]

(***************************************************************************)
(* Streaming generation: generate(stream=True) over one prompt, its        *)
(* generator pulled by the caller.                                         *)
(***************************************************************************)
InitStream ==
  /\ cfg \in {ValidConfig(m, n, f) : m \in 2..MaxSeqLen, n \in 1..MaxLayers, f \in BOOLEAN}
  /\ OUT = NoOUT
  /\ args \in {CallArgs(m, u, TRUE, sp) : m \in 1..MaxNewTokens, u \in BOOLEAN,
                                          sp \in {DefaultSampling, PenaltySampling}}
  /\ input_ids \in {<<p>> : p \in SeqsUpTo(Vocab, MaxPrompt) \ {<<>>}}
  /\ stream = NoStream
  /\ gen = [NoGen EXCEPT !.pc = "call"]
  /\ smp = NoSmp
  /\ moe = NoMoe
  /\ caller = NoCaller

NextStream == GenerateBegin \/ Pull

SpecStream == InitStream /\ [][NextStream]_vars

(***************************************************************************)
(* Non-streaming generation over a batch: rows of one length, each of pad  *)
(* ids and ordinary tokens with at least one token that is not a pad.      *)
(***************************************************************************)
PromptVocab == {pad_token_id, 1}

Batches ==
  UNION {UNION {[1..b -> {r \in SeqsOfLen(PromptVocab, n) : NonPad(r, pad_token_id) # <<>>}]
                : n \in 1..MaxPrompt} : b \in 1..MaxBatch}

InitGen ==
  /\ cfg \in {ValidConfig(m, 1, TRUE) : m \in 2..MaxSeqLen}
  /\ OUT = NoOUT
  /\ args \in {CallArgs(m, u, FALSE, DefaultSampling) : m \in 1..MaxGenTokens, u \in BOOLEAN}
  /\ input_ids \in Batches
  /\ stream = NoStream
  /\ gen = [NoGen EXCEPT !.pc = "call"]
  /\ smp = NoSmp
  /\ moe = NoMoe
  /\ caller = NoCaller

NextGen == GenerateBegin \/ Pull \/ RowDone

SpecGen == InitGen /\ [][NextGen]_vars

(***************************************************************************)
(* Claims on generation.                                                   *)
(***************************************************************************)
Prompt(r) == NonPad(input_ids[r], args.pad_token_id)

\* C1: generate with max_new_tokens = 1 returns, for each sequence, a sequence
\* exactly one token longer than the sequence's prompt.
C1_OneTokenLonger ==
  (gen.pc = "returned" /\ args.max_new_tokens = 1) =>
    \A r \in DOMAIN gen.generated : Len(gen.generated[r]) = Len(Prompt(r)) + 1

\* What a stream with use_cache disabled passes through the model at the step
\* at which its sequence is ids: the whole sequence, no cache, start_pos 0.
UncachedForward(ids) ==
  LET a == [args EXCEPT !.use_cache = FALSE]
      st == [NewStream(ids) EXCEPT !.first_seq = FALSE,
                                   !.past_kvs = [l \in 1..cfg.n_layers |-> NoneKV]]
      k == StepCall(st, a)
  IN Forward(cfg, k.ids, st.past_kvs, a.use_cache, k.start_pos)

Front(s) == SubSeq(s, 1, Len(s) - 1)

\* C2: at every step of a stream with use_cache enabled, the last position's
\* logits are those of the stream with use_cache disabled on the same sequence:
\* the same keys and values at the same absolute positions in the same order, in
\* every layer; and the cached step fails exactly when the uncached one does.
C2_CachedEqualsUncached ==
  args.use_cache =>
    /\ stream.pc = "yield" =>
         LET full == UncachedForward(Front(stream.ids))
         IN full.err = "none" /\ stream.logits = <<Last(full.logits)>>
    /\ stream.pc = "error" => UncachedForward(stream.ids).err # "none"

C2_Witness ==
  /\ args.use_cache
  /\ stream.pc = "yield"
  /\ stream.n_forward >= 3
  /\ stream.call.seq_len = 1
  /\ cfg.n_layers >= 2

Stopped == stream.pc \in {"done", "error"}

EosSampled == stream.n_forward > 0 /\ stream.yielded # <<>> /\ Last(stream.ids) = args.eos_token_id

\* C3 as claimed: every stream that stops has reached DONE, by the length
\* reaching max_new_tokens - 1 or by EOS having been sampled.
C3_StopsAtDone ==
  Stopped =>
    /\ stream.pc = "done"
    /\ Len(stream.ids) >= args.max_new_tokens - 1 \/ EosSampled

\* The number of resumptions a stream has left at most: two per token it may
\* still append (one may end it), one to find the loop over.
Remaining(st, a) ==
  IF st.pc \in {"start", "yield"}
  THEN 2 * Max(0, a.max_new_tokens - 1 - Len(st.ids)) + 1
  ELSE 0

\* C3, amended: every stream ends: a resumption of a stream that has not stopped
\* never blocks and leaves it strictly fewer resumptions, of a number bounded by
\* max_new_tokens.  It stops at DONE with the length at max_new_tokens - 1 or
\* more, or with EOS the last token sampled, or by forward's error on a sequence
\* longer than max_seq_len.  No token is appended beyond max_new_tokens - 1, and
\* after EOS is yielded the next resumption ends the stream with no forward pass
\* and no further token.
C3_StreamEnds ==
  /\ [](stream.pc \in {"start", "yield"} => StreamNext(cfg, args, OUT, stream) # {})
  /\ [][stream' # stream /\ stream.pc # "none"
         => Remaining(stream', args) < Remaining(stream, args)]_vars
  /\ [](stream.pc = "done" => (Len(stream.ids) >= args.max_new_tokens - 1 \/ EosSampled))
  /\ [](stream.pc = "error" => Len(stream.ids) > cfg.max_seq_len)
  /\ [](stream.pc = "yield" => Len(stream.ids) <= args.max_new_tokens - 1)
  /\ [][(stream.pc = "yield" /\ Last(stream.ids) = args.eos_token_id)
         => (stream'.pc = "done" /\ stream'.n_forward = stream.n_forward
             /\ stream'.ids = stream.ids)]_vars
  /\ [][(stream.pc \in {"start", "yield"} /\ Len(stream.ids) >= args.max_new_tokens - 1)
         => stream'.pc = "done"]_vars

C3_Witness ==
  /\ stream.pc = "done"
  /\ EosSampled
  /\ stream.n_forward >= 2
  /\ Len(stream.ids) < args.max_new_tokens - 1

Pads(n) == [k \in 1..n |-> args.pad_token_id]

\* C8: the rows returned have one length, and each is the row's prompt, then the
\* tokens generated for it, then pad ids only.
C8_RowsPromptGeneratedPads ==
  gen.pc = "returned" =>
    /\ Len(gen.result) = Len(input_ids)
    /\ \A r \in DOMAIN gen.result :
         /\ Len(gen.result[r]) = MaxLength(gen.generated)
         /\ gen.result[r] = Prompt(r) \o gen.lists[r]
                              \o Pads(Len(gen.result[r]) - Len(Prompt(r)) - Len(gen.lists[r]))

(***************************************************************************)
(* The sampling steps of _stream (lines 406-418) on their own: the logits  *)
(* of the last position, the sequence so far and the parameters are drawn, *)
(* and each step is applied in turn.                                       *)
(***************************************************************************)
RepetitionPenalties == {Rat(1), Rat(2)}
Temperatures == {<<3, 4>>, <<3, 2>>}
TopPs == {NoneTopP, Rat(0), <<1, 2>>, <<9, 10>>, Rat(1)}

IdleCfg == ValidConfig(MaxSeqLen, 1, TRUE)
IdleArgs == CallArgs(0, TRUE, FALSE, DefaultSampling)

InitSample ==
  /\ cfg = IdleCfg
  /\ OUT = NoOUT
  /\ args = IdleArgs
  /\ input_ids = <<>>
  /\ stream = NoStream
  /\ gen = NoGen
  /\ smp \in {[pc |-> "logits", logits |-> lg, ids |-> ids, rp |-> rp, temperature |-> t,
               top_p |-> tp, penalized |-> lg, scaled |-> lg, sorted_indices |-> <<>>,
               filtered |-> lg, input_ids_next |-> pad_token_id]
              : lg \in LogitVecs, ids \in SeqsUpTo(Vocab, MaxPrompt) \ {<<>>},
                rp \in RepetitionPenalties, t \in Temperatures, tp \in TopPs}
  /\ moe = NoMoe
  /\ caller = NoCaller

\* line 407
Penalize ==
  /\ smp.pc = "logits"
  /\ smp' = [smp EXCEPT !.pc = "penalized",
                        !.penalized = RepetitionPenalty(smp.logits, smp.ids, smp.rp)]
  /\ UNCHANGED <<cfg, OUT, args, input_ids, stream, gen, moe, caller>>

\* line 408
Scale ==
  /\ smp.pc = "penalized"
  /\ smp' = [smp EXCEPT !.pc = "scaled",
                        !.scaled = TemperatureScale(smp.penalized, smp.temperature)]
  /\ UNCHANGED <<cfg, OUT, args, input_ids, stream, gen, moe, caller>>

\* lines 409-417
Nucleus ==
  /\ smp.pc = "scaled"
  /\ \E p \in DescendingSorts(smp.scaled) :
       smp' = [smp EXCEPT !.pc = "filtered", !.sorted_indices = p,
                          !.filtered = NucleusFilter(smp.scaled, smp.top_p, p)]
  /\ UNCHANGED <<cfg, OUT, args, input_ids, stream, gen, moe, caller>>

\* line 418
Sample ==
  /\ smp.pc = "filtered"
  /\ \E tok \in Support(smp.filtered) :
       smp' = [smp EXCEPT !.pc = "sampled", !.input_ids_next = tok]
  /\ UNCHANGED <<cfg, OUT, args, input_ids, stream, gen, moe, caller>>

NextSample == Penalize \/ Scale \/ Nucleus \/ Sample

SpecSample == InitSample /\ [][NextSample]_vars

(***************************************************************************)
(* Claims on the sampling steps.                                           *)
(***************************************************************************)
NucleusApplies == smp.top_p # NoneTopP /\ RLess(smp.top_p, Rat(1))

\* the softmax weight of the token at place k of the descending order, and the
\* cumulative weight of the first k places
PlaceWeight(k) ==
  LET lo == CHOOSE m \in {Whole(smp.scaled[v]) : v \in Vocab} :
              \A v \in Vocab : m <= Whole(smp.scaled[v])
  IN Pow2(Whole(smp.scaled[smp.sorted_indices[k]]) - lo)

RECURSIVE PrefixWeight(_)
PrefixWeight(k) == IF k = 0 THEN 0 ELSE PlaceWeight(k) + PrefixWeight(k - 1)

\* the cumulative probability of the first k places exceeds top_p
Exceeds(k) ==
  PrefixWeight(k) * smp.top_p[2] > smp.top_p[1] * PrefixWeight(Cardinality(Vocab))

SmallestPrefix == CHOOSE k \in 1..Cardinality(Vocab) :
                    Exceeds(k) /\ \A j \in 1..(k - 1) : ~Exceeds(j)

\* C4: with top_p < 1 the filter keeps exactly the smallest prefix of the
\* descending order whose cumulative probability exceeds top_p, the token that
\* crosses top_p included, and sets every other logit to minus infinity; the
\* first token of the order is kept whatever top_p is.
C4_NucleusKeepsSmallestPrefix ==
  (smp.pc \in {"filtered", "sampled"} /\ NucleusApplies) =>
    /\ \A k \in 1..(Cardinality(Vocab) - 1) :
         ~RLess(smp.scaled[smp.sorted_indices[k]], smp.scaled[smp.sorted_indices[k + 1]])
    /\ \E k \in 1..Cardinality(Vocab) : Exceeds(k)
    /\ \A k \in 1..Cardinality(Vocab) :
         smp.filtered[smp.sorted_indices[k]] =
           IF k <= SmallestPrefix THEN smp.scaled[smp.sorted_indices[k]] ELSE NegInf
    /\ ~IsInf(smp.filtered[smp.sorted_indices[1]])

C4_Witness ==
  /\ smp.pc = "filtered"
  /\ NucleusApplies
  /\ SmallestPrefix = 2
  /\ IsInf(smp.filtered[smp.sorted_indices[3]])
  /\ ~Exceeds(1)

\* C5: with rp > 1 the penalty strictly decreases the logit of every token in
\* the sequence, leaves every other logit as it was, and with rp = 1 changes none.
C5_PenaltyDecreasesPresent ==
  smp.pc # "logits" =>
    \A v \in Vocab :
      /\ (v \in Range(smp.ids) /\ RLess(Rat(1), smp.rp))
           => RLess(smp.penalized[v], smp.logits[v])
      /\ v \notin Range(smp.ids) => REq(smp.penalized[v], smp.logits[v])
      /\ REq(smp.rp, Rat(1)) => REq(smp.penalized[v], smp.logits[v])

(***************************************************************************)
(* MOEFeedForward.  A token is a number, an expert a function on numbers,  *)
(* a routing weight a positive whole number.  A value is a whole number or *)
(* plus infinity (every number below is positive).                         *)
(***************************************************************************)
MaxTokens == 2
NumExperts == 4

Fin(n) == [inf |-> FALSE, v |-> n]
PlusInf == [inf |-> TRUE, v |-> 0]
VAdd(a, b) == IF a.inf \/ b.inf THEN PlusInf ELSE Fin(a.v + b.v)
\* a value times a weight w > 0
VScale(a, w) == IF a.inf THEN PlusInf ELSE Fin(a.v * w)

RECURSIVE BinadeStep(_, _)
\* the spacing of float16 numbers around n >= 2048: 2^(e - 10) for 2^e <= n < 2^(e + 1)
BinadeStep(n, step) == IF n < 4096 * step THEN 2 * step ELSE BinadeStep(n, 2 * step)

(***************************************************************************)
(* .to(torch.float16) of a number n >= 0: whole numbers up to 2048 are     *)
(* kept, larger ones round to the nearest float16 (ties to the even        *)
(* significand), and from 65520 on the result is infinity.                 *)
(***************************************************************************)
ToFloat16(a) ==
  IF a.inf THEN PlusInf
  ELSE IF a.v <= 2048 THEN a
  ELSE IF a.v >= 65520 THEN PlusInf
  ELSE LET step == BinadeStep(a.v, 1)
           q == a.v \div step
           r == a.v % step
       IN IF 2 * r < step THEN Fin(q * step)
          ELSE IF 2 * r > step THEN Fin((q + 1) * step)
          ELSE IF q % 2 = 0 THEN Fin(q * step) ELSE Fin((q + 1) * step)

\* line 265: y = torch.empty_like(x, dtype=torch.float16); line 267: .to(y.dtype)
TrainingBufferCast(a) == ToFloat16(a)

\* experts[i](x), for a module whose experts are scaled by m.scale
Expert(m, i, x) == Fin(m.scale * (10 * (i + 1) + x))
\* shared_experts(x)
SharedExpert(m, x) == Fin(m.scale * (7 + x))

\* the token (from 1) of the flat place f (from 1): idxs // num_experts_per_tok
TokenOf(f, top_k) == (f - 1) \div top_k + 1

RECURSIVE VSum(_, _)
VSum(f, n) == IF n = 0 THEN Fin(0) ELSE VAdd(VSum(f, n - 1), f[n])

(***************************************************************************)
(* forward, lines 262-269, self.training: every copy of a token goes to    *)
(* the expert of its place, the result is stored in the float16 buffer y,  *)
(* and the top_k results of a token are weighted and summed.               *)
(***************************************************************************)
TrainingDispatch(m) ==
  LET n == Len(m.flat_topk_idx)
      y == [f \in 1..n |->
             TrainingBufferCast(Expert(m, m.flat_topk_idx[f], m.x[TokenOf(f, m.top_k)]))]
  IN [t \in 1..Len(m.x) |->
       VSum([j \in 1..m.top_k |-> VScale(y[(t - 1) * m.top_k + j],
                                          m.topk_weight[(t - 1) * m.top_k + j])],
            m.top_k)]

RECURSIVE Perms(_)
Perms(S) ==
  IF S = {} THEN {<<>>}
  ELSE UNION {{<<e>> \o p : p \in Perms(S \ {e})} : e \in S}

RECURSIVE ArgsortsFrom(_, _, _)
ArgsortsFrom(flat, i, hi) ==
  IF i > hi THEN {<<>>}
  ELSE {p \o rest : p \in Perms({f \in DOMAIN flat : flat[f] = i}),
                    rest \in ArgsortsFrom(flat, i + 1, hi)}

MaxOf(flat) == CHOOSE e \in Range(flat) : \A d \in Range(flat) : d <= e

\* flat_expert_indices.argsort(): any order that sorts; ties are not ordered
Argsorts(flat) == ArgsortsFrom(flat, 0, MaxOf(flat))

\* line 282: bincount().cumsum(0), one entry per expert 0..max
TokensPerExpert(flat) ==
  [i \in 0..MaxOf(flat) |-> Cardinality({f \in DOMAIN flat : flat[f] <= i})]

\* every expert's slice taken from the start of idxs
StartIdxZero(tokens_per_expert, i) == 0

\* line 288
StartIdx(tokens_per_expert, i) == IF i = 0 THEN 0 ELSE tokens_per_expert[i - 1]

\* line 283, at one place of idxs
TokenIdx(idx, top_k) == TokenOf(idx, top_k)

(***************************************************************************)
(* moe_infer, lines 287-297.  The result is expert_cache with the          *)
(* invocations made: for each, the expert, the flat places of its slice of *)
(* idxs, the tokens gathered and the weights multiplied in.                *)
(***************************************************************************)
RECURSIVE InferLoop(_, _, _, _, _, _)
InferLoop(m, idxs, tpe, i, expert_cache, calls) ==
  IF i > MaxOf(m.flat_topk_idx) THEN [expert_cache |-> expert_cache, calls |-> calls]
  ELSE LET start_idx == StartIdx(tpe, i)
           end_idx == tpe[i]
       IN IF start_idx = end_idx
          THEN InferLoop(m, idxs, tpe, i + 1, expert_cache, calls)
          ELSE LET places == SubSeq(idxs, start_idx + 1, end_idx)
                   exp_token_idx == [k \in DOMAIN places |-> TokenIdx(places[k], m.top_k)]
                   weights == [k \in DOMAIN places |-> m.topk_weight[places[k]]]
                   expert_out == [k \in DOMAIN places |->
                                   VScale(Expert(m, i, m.x[exp_token_idx[k]]), weights[k])]
                   \* scatter_add_ along the tokens
                   added == [t \in DOMAIN expert_cache |->
                              VAdd(expert_cache[t],
                                   VSum([k \in DOMAIN places |->
                                          IF exp_token_idx[k] = t THEN expert_out[k]
                                          ELSE Fin(0)], Len(places)))]
               IN InferLoop(m, idxs, tpe, i + 1, added,
                            Append(calls, [expert |-> i, places |-> places,
                                           tokens |-> exp_token_idx, weights |-> weights]))

MoeInfer(m, idxs) ==
  InferLoop(m, idxs, TokensPerExpert(m.flat_topk_idx), 0,
            [t \in 1..Len(m.x) |-> Fin(0)], <<>>)

\* lines 273-274
AddShared(m, y) ==
  IF m.n_shared_experts THEN [t \in DOMAIN y |-> VAdd(y[t], SharedExpert(m, m.x[t]))]
  ELSE y

(***************************************************************************)
(* The gate's routing decision is drawn: for each token top_k different    *)
(* experts in any order (topk is unsorted), flattened token by token.      *)
(***************************************************************************)
TopKs == {1, 2}
Scales == {1, 2000}

RECURSIVE Routings(_, _)
Routings(tokens, top_k) ==
  IF tokens = 0 THEN {<<>>}
  ELSE {r \o c : r \in Routings(tokens - 1, top_k),
                 c \in {q \in SeqsOfLen(0..(NumExperts - 1), top_k) :
                          \A a, b \in 1..top_k : a # b => q[a] # q[b]}}

WeightTables(n) == {[f \in 1..n |-> n + 1 - f]}

InitMoe ==
  /\ cfg = IdleCfg
  /\ OUT = NoOUT
  /\ args = IdleArgs
  /\ input_ids = <<>>
  /\ stream = NoStream
  /\ gen = NoGen
  /\ smp = NoSmp
  /\ \E tokens \in 1..MaxTokens, top_k \in TopKs :
       moe \in {[pc |-> "routed", x |-> [t \in 1..tokens |-> t], top_k |-> top_k,
                 flat_topk_idx |-> r, topk_weight |-> w, scale |-> sc,
                 n_shared_experts |-> sh, trained |-> FALSE, inferred |-> FALSE,
                 y_training |-> <<>>, y_inference |-> <<>>, idxs |-> <<>>, calls |-> <<>>]
                : r \in Routings(tokens, top_k), w \in WeightTables(tokens * top_k),
                  sc \in Scales, sh \in BOOLEAN}
  /\ caller = NoCaller

\* forward with self.training set
ForwardTraining ==
  /\ moe.pc = "routed"
  /\ ~moe.trained
  /\ moe' = [moe EXCEPT !.trained = TRUE,
                        !.y_training = AddShared(moe, TrainingDispatch(moe))]
  /\ UNCHANGED <<cfg, OUT, args, input_ids, stream, gen, smp, caller>>

\* forward with self.training clear: moe_infer
ForwardInference ==
  /\ moe.pc = "routed"
  /\ ~moe.inferred
  /\ \E idxs \in Argsorts(moe.flat_topk_idx) :
       LET r == MoeInfer(moe, idxs)
       IN moe' = [moe EXCEPT !.inferred = TRUE, !.idxs = idxs, !.calls = r.calls,
                             !.y_inference = AddShared(moe, r.expert_cache)]
  /\ UNCHANGED <<cfg, OUT, args, input_ids, stream, gen, smp, caller>>

NextMoe == ForwardTraining \/ ForwardInference

SpecMoe == InitMoe /\ [][NextMoe]_vars

(***************************************************************************)
(* Claims on MOEFeedForward.                                               *)
(***************************************************************************)
\* the sum over the token's selected experts of weight times expert output
WeightedSum(t) ==
  VSum([j \in 1..moe.top_k |->
         VScale(Expert(moe, moe.flat_topk_idx[(t - 1) * moe.top_k + j], moe.x[t]),
                moe.topk_weight[(t - 1) * moe.top_k + j])], moe.top_k)

\* C6: on the same tokens, routing and experts the training-mode and the
\* inference-mode dispatch give every token the same output, the weighted sum of
\* its selected experts' outputs.
C6_DispatchPathsAgree ==
  (moe.trained /\ moe.inferred) =>
    /\ moe.y_training = moe.y_inference
    /\ \A t \in DOMAIN moe.x :
         moe.y_training[t] = AddShared(moe, [u \in DOMAIN moe.x |-> WeightedSum(u)])[t]

\* C7: in moe_infer every flat place (a token and one of its selected experts)
\* is in exactly one invocation, that of the expert it names, with its token and
\* its own weight; the invocations' token counts sum to tokens x top_k; no
\* invocation has no token, and an expert with no place is not invoked.
C7_EveryAssignmentOnce ==
  moe.inferred =>
    LET n == Len(moe.flat_topk_idx)
        At(f) == {<<c, k>> \in (DOMAIN moe.calls) \X (1..n) :
                    k \in DOMAIN moe.calls[c].places /\ moe.calls[c].places[k] = f}
    IN /\ \A f \in 1..n :
            /\ Cardinality(At(f)) = 1
            /\ \A ck \in At(f) :
                 /\ moe.calls[ck[1]].expert = moe.flat_topk_idx[f]
                 /\ moe.calls[ck[1]].tokens[ck[2]] = TokenOf(f, moe.top_k)
                 /\ moe.calls[ck[1]].weights[ck[2]] = moe.topk_weight[f]
       /\ SumTo([c \in DOMAIN moe.calls |-> Len(moe.calls[c].tokens)], Len(moe.calls))
            = Len(moe.x) * moe.top_k
       /\ \A c \in DOMAIN moe.calls : moe.calls[c].places # <<>>
       /\ \A c, d \in DOMAIN moe.calls : c # d => moe.calls[c].expert # moe.calls[d].expert
       /\ \A c \in DOMAIN moe.calls : moe.calls[c].expert \in Range(moe.flat_topk_idx)

\* experts 0 and 2 have no token (the lowest and a middle one), 1 and 3 have
C7_Witness ==
  /\ moe.inferred
  /\ Len(moe.x) = 2
  /\ moe.top_k = 2
  /\ Range(moe.flat_topk_idx) = {1, 3}
  /\ Len(moe.calls) = 2

(***************************************************************************)
(* Construction and direct calls of forward.                               *)
(***************************************************************************)
MaxCallLen == 2
MaxStartPos == 2
MaxCacheLen == 4

\* Attention.__init__, line 77
KvHeads(c) == IF c.n_kv_heads = NoneHeads THEN c.n_heads ELSE c.n_kv_heads

\* construction without the assertion of line 78
ConstructedUnchecked(c) == [c EXCEPT !.built = "ok"]

(***************************************************************************)
(* MiniMindLM.__init__: each layer's Attention.__init__ asserts            *)
(* n_heads % n_kv_heads == 0 (line 78).  precompute_pos_cis takes dim // 2 *)
(* frequencies of an odd head dimension (line 32) and MoEGate.__init__     *)
(* only stores scoring_func (line 176): neither raises.                    *)
(***************************************************************************)
Constructed(c) ==
  IF c.n_layers >= 1 /\ c.n_heads % KvHeads(c) # 0
  THEN [c EXCEPT !.built = "AssertionError"]
  ELSE [c EXCEPT !.built = "ok"]

Configs ==
  [dim : {6}, n_heads : {1, 2, 3}, n_kv_heads : {NoneHeads, 2},
   scoring_func : {"softmax", "sigmoid"}, use_moe : BOOLEAN, flash : BOOLEAN,
   max_seq_len : 2..MaxSeqLen, n_layers : 0..MaxLayers, built : {"config"}]

NoCalls == [pc |-> "calls", n_calls |-> 0, seq_len |-> 0, start_pos |-> 0, passed |-> 0,
            use_cache |-> FALSE, err |-> "none"]

InitModel ==
  /\ cfg \in Configs
  /\ OUT = NoOUT
  /\ args = IdleArgs
  /\ input_ids = <<>>
  /\ stream = NoStream
  /\ gen = NoGen
  /\ smp = NoSmp
  /\ moe = NoMoe
  /\ caller = NoCalls

Construct ==
  /\ cfg.built = "config"
  /\ cfg' = Constructed(cfg)
  /\ UNCHANGED <<OUT, args, input_ids, stream, gen, smp, moe, caller>>

\* the length of the cache a list of per-layer entries holds
CacheLen(past_key_values) ==
  IF past_key_values = <<>> THEN 0 ELSE Len(past_key_values[1].kv)

(***************************************************************************)
(* A caller's forward(input_ids, past_key_values, use_cache, start_pos):   *)
(* past_key_values is None or what the model's OUT object holds from the   *)
(* last call, start_pos is any position.  An exception leaves OUT as it    *)
(* was.                                                                    *)
(***************************************************************************)
ForwardCall ==
  /\ cfg.built = "ok"
  /\ caller.pc = "calls"
  /\ \E seq_len \in 1..MaxCallLen, start_pos \in 0..MaxStartPos,
        pass \in BOOLEAN, use_cache \in BOOLEAN :
       LET past == IF pass THEN OUT.past_key_values ELSE <<>>
           out == Forward(cfg, [i \in 1..seq_len |-> 1], past, use_cache, start_pos)
       IN /\ CacheLen(past) + seq_len <= MaxCacheLen
          /\ caller' = [caller EXCEPT !.n_calls = Min(@ + 1, 2), !.seq_len = seq_len,
                                      !.start_pos = start_pos, !.passed = CacheLen(past),
                                      !.use_cache = use_cache, !.err = out.err]
          /\ OUT' = IF out.err = "none"
                    THEN [logits |-> out.logits, past_key_values |-> out.past_key_values]
                    ELSE OUT
  /\ UNCHANGED <<cfg, args, input_ids, stream, gen, smp, moe>>

NextModel == Construct \/ ForwardCall

SpecModel == InitModel /\ [][NextModel]_vars

(***************************************************************************)
(* Claims on construction and on the position window.                      *)
(***************************************************************************)
HeadsNotDivisible(c) == c.n_heads % KvHeads(c) # 0
HeadDimOdd(c) == (c.dim \div c.n_heads) % 2 = 1
ScoringNotSoftmax(c) == c.scoring_func # "softmax"

\* C9 as claimed: no model is constructed from a configuration whose n_heads is
\* not divisible by n_kv_heads, whose head dimension is odd or whose scoring
\* function is not softmax.
C9_BadConfigNeverConstructed ==
  cfg.built = "ok" =>
    ~(HeadsNotDivisible(cfg) \/ HeadDimOdd(cfg) \/ ScoringNotSoftmax(cfg))

\* C9, amended: construction of a model of one or more layers fails when
\* n_heads is not divisible by n_kv_heads, and for no other configuration; such
\* a model with an odd head dimension, or with use_moe and a scoring function
\* other than softmax, is constructed, and every forward call on it fails with
\* an error and leaves no output.
C9_DivisibilityAtConstructionRestAtForward ==
  /\ (cfg.built # "config" /\ cfg.n_layers >= 1 /\ HeadsNotDivisible(cfg))
       => cfg.built = "AssertionError"
  /\ (cfg.built # "config" /\ ~HeadsNotDivisible(cfg)) => cfg.built = "ok"
  /\ (cfg.built = "ok" /\ cfg.n_layers >= 1
        /\ (HeadDimOdd(cfg) \/ (cfg.use_moe /\ ScoringNotSoftmax(cfg))))
       => /\ OUT = NoOUT
          /\ caller.n_calls > 0 => caller.err \in {"reshape", "assert_pos_cis",
                                                   "mask_shape", "scoring_func"}
  /\ cfg.built # "ok" => caller.n_calls = 0

C9_Witness ==
  /\ cfg.built = "ok"
  /\ HeadDimOdd(cfg)
  /\ caller.n_calls > 0
  /\ caller.err = "reshape"

WindowPastTable == caller.start_pos + caller.seq_len > cfg.max_seq_len

\* C10 as claimed: a forward call whose window reaches past max_seq_len fails,
\* and no cache entry longer than max_seq_len is ever returned.
C10_CacheNeverLonger ==
  caller.n_calls > 0 =>
    /\ WindowPastTable => caller.err # "none"
    /\ \A l \in DOMAIN OUT.past_key_values :
         Len(OUT.past_key_values[l].kv) <= cfg.max_seq_len

\* C10, amended: on a model of one or more layers a forward call whose window
\* reaches past max_seq_len fails with an error; a call whose start_pos is the
\* length of the cache passed to it, as in every step of generation, returns no
\* cache entry longer than max_seq_len.
C10_WindowCheckedCacheBoundedWhenAligned ==
  caller.n_calls > 0 =>
    /\ (WindowPastTable /\ cfg.n_layers >= 1) => caller.err # "none"
    /\ (caller.err = "none" /\ caller.start_pos = caller.passed) =>
         \A l \in DOMAIN OUT.past_key_values :
           /\ Len(OUT.past_key_values[l].kv) <= cfg.max_seq_len
           /\ caller.use_cache =>
                Len(OUT.past_key_values[l].kv) = caller.passed + caller.seq_len

C10_Witness ==
  /\ caller.n_calls > 1
  /\ WindowPastTable
  /\ caller.err = "assert_pos_cis"
  /\ caller.passed = cfg.max_seq_len
  /\ caller.start_pos = caller.passed

(***************************************************************************)
(* Two streaming sessions on one model.  Each generate(stream=True) call   *)
(* returns a generator; the caller resumes either at will.  A generator    *)
(* runs from one yield to the next without interruption, and its forward   *)
(* call writes the model's one OUT object.  Beside each session the state  *)
(* keeps the run of the same generator alone, on a model object of its     *)
(* own, fed the same draws.                                                *)
(***************************************************************************)
MaxSwitches == 3
MaxSessionTokens == 4

SessionPrompts == SeqsUpTo({1}, MaxPrompt) \ {<<>>}

NoSessions ==
  [pc |-> "sessions", use_cache |-> <<TRUE, TRUE>>,
   sessions |-> <<NoStream, NoStream>>,
   alone |-> <<[st |-> NoStream, OUT |-> NoOUT], [st |-> NoStream, OUT |-> NoOUT]>>,
   last |-> 0, switches |-> 0]

SessionArgs(k) == [args EXCEPT !.use_cache = caller.use_cache[k]]

InitSessions ==
  /\ cfg \in {ValidConfig(m, MaxLayers, TRUE) : m \in 2..MaxSeqLen}
  /\ OUT = NoOUT
  /\ args \in {CallArgs(m, TRUE, TRUE, DefaultSampling) : m \in 1..MaxSessionTokens}
  /\ input_ids \in SessionPrompts \X SessionPrompts
  /\ stream = NoStream
  /\ gen = NoGen
  /\ smp = NoSmp
  /\ moe = NoMoe
  /\ caller \in {[NoSessions EXCEPT !.use_cache = uc] :
                   uc \in {<<TRUE, TRUE>>, <<TRUE, FALSE>>, <<FALSE, FALSE>>}}

\* generate(..., stream=True) for session k: line 378 returns the generator
OpenSession(k) ==
  /\ caller.pc = "sessions"
  /\ caller.sessions[k].pc = "none"
  /\ caller' = [caller EXCEPT !.sessions[k] = NewStream(input_ids[k]),
                              !.alone[k].st = NewStream(input_ids[k])]
  /\ UNCHANGED <<cfg, OUT, args, input_ids, stream, gen, smp, moe>>

\* the two resumptions made the same draw
SameDraw(r, q) ==
  (r.st.pc = "yield" /\ q.st.pc = "yield") => Last(r.st.ids) = Last(q.st.ids)

\* next() on session k's generator
ResumeSession(k) ==
  /\ caller.pc = "sessions"
  /\ caller.sessions[k].pc \in {"start", "yield"}
  /\ LET own == caller.alone[k]
         solo == IF own.st.pc \in {"start", "yield"}
                 THEN StreamNext(cfg, SessionArgs(k), own.OUT, own.st)
                 ELSE {own}
     IN \E r \in StreamNext(cfg, SessionArgs(k), OUT, caller.sessions[k]), q \in solo :
          /\ SameDraw(r, q)
          /\ OUT' = r.OUT
          /\ caller' = [caller EXCEPT
                          !.sessions[k] = r.st,
                          !.alone[k] = q,
                          !.last = k,
                          !.switches = IF caller.last \notin {0, k}
                                       THEN Min(@ + 1, MaxSwitches) ELSE @]
  /\ UNCHANGED <<cfg, args, input_ids, stream, gen, smp, moe>>

NextSessions == \E k \in {1, 2} : OpenSession(k) \/ ResumeSession(k)

SpecSessions == InitSessions /\ [][NextSessions]_vars

(***************************************************************************)
(* Claims on sessions and on the carried cache.                            *)
(***************************************************************************)
\* C11: in every interleaving of two sessions on one model each session is, at
\* every point, exactly where its run alone with the same draws is: the same
\* tokens yielded, the same token sequence, the same cache and the same logits
\* sampled from; and a step of one session changes nothing of the other.
C11_SessionsAsAlone ==
  /\ [](caller.pc = "sessions" =>
          \A k \in {1, 2} : caller.sessions[k] = caller.alone[k].st)
  /\ [][caller.pc = "sessions" =>
          \A k \in {1, 2} :
            caller'.sessions[k] # caller.sessions[k]
              => caller'.sessions[3 - k] = caller.sessions[3 - k]]_vars

\* both sessions carry a cache, each has stepped on a cache while OUT held the
\* other's, and the caller has switched between them three times
C11_Witness ==
  /\ caller.pc = "sessions"
  /\ caller.switches >= 3
  /\ caller.use_cache = <<TRUE, TRUE>>
  /\ \A k \in {1, 2} : /\ caller.sessions[k].pc = "yield"
                       /\ caller.sessions[k].n_forward >= 2
                       /\ caller.sessions[k].call.seq_len = 1
  /\ caller.sessions[1].ids # caller.sessions[2].ids
  /\ OUT.past_key_values # caller.sessions[1].past_kvs

\* the length of the stream's sequence when its last forward call was made: a
\* call that returned was followed by the append of line 419
LengthAtCall == IF stream.pc = "error" THEN Len(stream.ids) ELSE Len(stream.ids) - 1

\* C12: with use_cache the first step passes the whole prompt, no cache and
\* start_pos 0; every later step passes the last token only, start_pos = length
\* - 1 and, in every layer, a cache of exactly start_pos positions; the cache a
\* step returns holds, in every layer, as many positions as tokens have passed
\* through the model: the length at the call.
C12_CacheLengthIsTokensPassed ==
  (args.use_cache /\ stream.n_forward >= 1) =>
    /\ stream.n_forward = 1 =>
         /\ stream.call.seq_len = stream.start
         /\ stream.call.seq_len = LengthAtCall
         /\ stream.call.start_pos = 0
         /\ stream.call.past = <<>>
    /\ stream.n_forward > 1 =>
         /\ stream.call.seq_len = 1
         /\ stream.call.start_pos = LengthAtCall - 1
         /\ stream.call.past = [l \in 1..cfg.n_layers |-> stream.call.start_pos]
    /\ stream.pc \in {"yield", "done"} =>
         /\ Len(stream.past_kvs) = cfg.n_layers
         /\ \A l \in 1..cfg.n_layers :
              /\ stream.past_kvs[l].some
              /\ Len(stream.past_kvs[l].kv) = LengthAtCall
              /\ Len(stream.past_kvs[l].kv) = stream.call.start_pos + stream.call.seq_len

C12_Witness ==
  /\ args.use_cache
  /\ stream.pc = "yield"
  /\ stream.start = 2
  /\ stream.n_forward = 2
  /\ stream.call.start_pos = 2
  /\ cfg.n_layers = 2
  /\ stream.call.past = <<2, 2>>
  /\ Len(stream.past_kvs[2].kv) = 3

====
